---- MODULE Spec2Model ----
(***************************************************************************)
(* Calendar event server (backend/src/controllers/eventController.ts       *)
(* behind the router of the backend): the Event table, the request         *)
(* handlers the router registers (getEvents, createEvent, deleteEvent) and *)
(* the recurrence expansion they use.  The router registers no route for   *)
(* PUT /events/:id, the request updateEvent of the frontend's api.ts       *)
(* sends, so the controller's updateEvent never runs.                      *)
(* A handler is a sequence of steps, one per await of a database call.     *)
(* Spec lets the handlers of two clients interleave at their awaits,       *)
(* SeqSpec serves the requests of one client to the end, one after the     *)
(* other, and CalendarSpec is the Calendar component of the frontend       *)
(* talking to that server.                                                 *)
(*                                                                         *)
(* Time is counted in whole ticks; one tick is the period of the rule      *)
(* "FREQ=DAILY" divided by TicksPerDay.  Date objects are integers, a      *)
(* missing Date is NullTime, a missing string column is NULL.              *)
(***************************************************************************)
EXTENDS Integers, Sequences, FiniteSets, TLC

VARIABLES store, nextId, inflight,
          events, error, loading, currentDate, modal, calls, rejected

(* the server: the Event table and the requests being handled *)
serverVars == <<store, nextId, inflight>>
(* the Calendar component (frontend/src/components/Calendar.tsx) with its  *)
(* EventModal                                                              *)
calendarVars == <<events, error, loading, currentDate, modal, calls, rejected>>

vars == <<serverVars, calendarVars>>

(* ---------------- bounds of the model ---------------- *)
MaxTime == 2
MaxEvents == 3
TicksPerDay == 1
DaysPerWeek == 7
DaysPerYear == 365
MaxSlot == 3
MaxCalls == 3

(* ---------------- values ---------------- *)
NULL == "null"
UNDEFINED == "undefined"
NullTime == -1

Times == 0 .. MaxTime
WindowTimes == -1 .. (MaxTime + 1)
Titles == {"", "a"}
Rules == {"FREQ=DAILY"}

IdOf(n) == "e" \o ToString(n)
IssuedIds == {IdOf(n) : n \in 1 .. (nextId - 1)}

(* !title || title.trim() === '' *)
Blank(title) == title = ""

(* ---------------- the Event table ---------------- *)
Ids == {r.id : r \in store}
Row(id) == CHOOSE r \in store : r.id = id

(* ---------------- recurrence: rrulestr(...).between(a, b) ---------------- *)
Period(rrule) ==
    IF rrule = "FREQ=DAILY" THEN TicksPerDay
    ELSE IF rrule = "FREQ=YEARLY" THEN DaysPerYear * TicksPerDay
    ELSE 0

RuleOccurrences(rrule, dtstart, horizon) ==
    {dtstart + k * Period(rrule) : k \in 0 .. (IF horizon > dtstart THEN horizon - dtstart ELSE 0)}

(* between with inc = true: the two bounds count as occurrences *)
betweenInclusive(rrule, dtstart, after, beforeT) ==
    {t \in RuleOccurrences(rrule, dtstart, beforeT) : after <= t /\ t <= beforeT}

between(rrule, dtstart, after, beforeT) ==
    {t \in RuleOccurrences(rrule, dtstart, beforeT) : after < t /\ t < beforeT}

(* rule.between returns its dates in ascending order *)
RECURSIVE SortedSeq(_)
SortedSeq(S) ==
    IF S = {} THEN <<>>
    ELSE LET m == CHOOSE x \in S : \A y \in S : x <= y
         IN <<m>> \o SortedSeq(S \ {m})

(* every order in which findMany may return a set of rows (no orderBy) *)
RECURSIVE Orders(_)
Orders(S) ==
    IF S = {} THEN {<<>>}
    ELSE UNION {{<<r>> \o o : o \in Orders(S \ {r})} : r \in S}

(* ---------------- getEvents ---------------- *)
(* lte / gte in place of lt / gt in clause A: a single event that only *)
(* touches the window is selected                                   *)
potentialEventsWhereClosed(e, windowStart, windowEnd) ==
    \/ /\ e.rrule = NULL
       /\ e.recurrenceId = NULL
       /\ e.startTime <= windowEnd
       /\ e.endTime >= windowStart
    \/ /\ e.rrule # NULL
       /\ e.startTime < windowEnd
    \/ /\ e.recurrenceId # NULL
       /\ e.originalStartTime # NullTime
       /\ e.originalStartTime >= windowStart
       /\ e.originalStartTime < windowEnd

potentialEventsWhere(e, windowStart, windowEnd) ==
    \/ /\ e.rrule = NULL
       /\ e.recurrenceId = NULL
       /\ e.startTime < windowEnd
       /\ e.endTime > windowStart
    \/ /\ e.rrule # NULL
       /\ e.startTime < windowEnd
    \/ /\ e.recurrenceId # NULL
       /\ e.originalStartTime # NullTime
       /\ e.originalStartTime >= windowStart
       /\ e.originalStartTime < windowEnd

isMaster(e) == e.rrule # NULL
(* the recurrenceId test dropped from the filter: exceptions pass as singles *)
isSingleNoRecurrenceTest(e) == e.rrule = NULL

isSingle(e) == e.rrule = NULL /\ e.recurrenceId = NULL
isException(e) == e.recurrenceId # NULL /\ e.originalStartTime # NullTime

exceptionKey(id, t) == id \o "-" \o ToString(t)

(* the Map built by forEach: a later set() of the same key replaces the earlier *)
exceptionsHas(potentialEvents, key) ==
    \E i \in 1 .. Len(potentialEvents) :
        /\ isException(potentialEvents[i])
        /\ exceptionKey(potentialEvents[i].recurrenceId, potentialEvents[i].originalStartTime) = key

(* the first set() of a key kept: a later exception of the same key ignored *)
exceptionsGetFirst(potentialEvents, key) ==
    LET hits == {i \in 1 .. Len(potentialEvents) :
                    /\ isException(potentialEvents[i])
                    /\ exceptionKey(potentialEvents[i].recurrenceId,
                                    potentialEvents[i].originalStartTime) = key}
        first == CHOOSE i \in hits : \A j \in hits : i <= j
    IN potentialEvents[first]

exceptionsGet(potentialEvents, key) ==
    LET hits == {i \in 1 .. Len(potentialEvents) :
                    /\ isException(potentialEvents[i])
                    /\ exceptionKey(potentialEvents[i].recurrenceId,
                                    potentialEvents[i].originalStartTime) = key}
        last == CHOOSE i \in hits : \A j \in hits : j <= i
    IN potentialEvents[last]

(* a row as it appears in the response: no instance markers *)
Persisted(e) == e @@ [isRecurringInstance |-> FALSE, masterId |-> NULL]

virtualId(id, t) == id \o "_" \o ToString(t)

(* the duration not applied: every instance ends when the master row ends *)
VirtualInstanceMasterEnd(master, occurrenceDate) ==
    [id |-> virtualId(master.id, occurrenceDate),
     title |-> master.title,
     startTime |-> occurrenceDate,
     endTime |-> master.endTime,
     rrule |-> master.rrule,
     recurrenceId |-> master.recurrenceId,
     originalStartTime |-> master.originalStartTime,
     isCancelled |-> master.isCancelled,
     isRecurringInstance |-> TRUE,
     masterId |-> master.id]

VirtualInstance(master, occurrenceDate) ==
    [id |-> virtualId(master.id, occurrenceDate),
     title |-> master.title,
     startTime |-> occurrenceDate,
     endTime |-> occurrenceDate + (master.endTime - master.startTime),
     rrule |-> master.rrule,
     recurrenceId |-> master.recurrenceId,
     originalStartTime |-> master.originalStartTime,
     isCancelled |-> master.isCancelled,
     isRecurringInstance |-> TRUE,
     masterId |-> master.id]

(* the exception lookup dropped: every occurrence becomes a generated instance *)
occurrenceEntriesNoLookup(potentialEvents, master, occurrenceDate) ==
    <<VirtualInstance(master, occurrenceDate)>>

(* what one occurrence of one master pushes onto finalEvents *)
occurrenceEntries(potentialEvents, master, occurrenceDate) ==
    LET key == exceptionKey(master.id, occurrenceDate)
    IN IF exceptionsHas(potentialEvents, key)
       THEN (IF ~exceptionsGet(potentialEvents, key).isCancelled
             THEN <<Persisted(exceptionsGet(potentialEvents, key))>>
             ELSE <<>>)
       ELSE <<VirtualInstance(master, occurrenceDate)>>

RECURSIVE masterEntries(_, _, _)
masterEntries(potentialEvents, master, occurrences) ==
    IF occurrences = <<>> THEN <<>>
    ELSE occurrenceEntries(potentialEvents, master, Head(occurrences))
         \o masterEntries(potentialEvents, master, Tail(occurrences))

RECURSIVE recurringEntries(_, _, _, _)
recurringEntries(potentialEvents, masterEvents, windowStart, windowEnd) ==
    IF masterEvents = <<>> THEN <<>>
    ELSE LET master == Head(masterEvents)
             occurrences == SortedSeq(between(master.rrule, master.startTime,
                                              windowStart, windowEnd))
         IN masterEntries(potentialEvents, master, occurrences)
            \o recurringEntries(potentialEvents, Tail(masterEvents), windowStart, windowEnd)

RECURSIVE MapPersisted(_)
MapPersisted(s) == IF s = <<>> THEN <<>> ELSE <<Persisted(Head(s))>> \o MapPersisted(Tail(s))

finalEvents(potentialEvents, windowStart, windowEnd) ==
    MapPersisted(SelectSeq(potentialEvents, isSingle))
    \o recurringEntries(potentialEvents, SelectSeq(potentialEvents, isMaster),
                        windowStart, windowEnd)

(* ---------------- conflict detection ---------------- *)
(* only a row that starts inside the candidate interval counts *)
overlapWhereStartInside(e, newStart, newEnd) == e.startTime >= newStart /\ e.startTime < newEnd

(* lte / gte in place of lt / gt: touching intervals conflict *)
overlapWhereClosed(e, newStart, newEnd) == e.startTime <= newEnd /\ e.endTime >= newStart

(* where: { startTime: { lt: newEnd }, endTime: { gt: newStart } } *)
overlapWhere(e, newStart, newEnd) == e.startTime < newEnd /\ e.endTime > newStart

(* the endTime condition dropped from the where clause *)
createConflictsStartOnly(rows, newStart, newEnd, recurrenceId) ==
    {e \in rows : /\ e.startTime < newEnd
                  /\ (recurrenceId # NULL => e.id # recurrenceId)}

(* the id condition dropped: the master is tested like any other row *)
createConflictsNoExclusion(rows, newStart, newEnd, recurrenceId) ==
    {e \in rows : e.startTime < newEnd /\ e.endTime > newStart}

createConflicts(rows, newStart, newEnd, recurrenceId) ==
    {e \in rows : /\ overlapWhere(e, newStart, newEnd)
                  /\ (recurrenceId # NULL => e.id # recurrenceId)}

(* the conflict query of the controller's updateEvent, which no request    *)
(* reaches                                                                 *)
updateConflicts(rows, id, newStart, newEnd) ==
    {e \in rows : e.id # id /\ overlapWhere(e, newStart, newEnd)}

(* ---------------- requests and responses ---------------- *)
(* The server runs one handler per request.  A handler runs until its next  *)
(* await; while it waits for the database the server runs the handlers of   *)
(* other requests.  inflight[c] is the handler of client c: the await it is *)
(* suspended at (pc), its request and, once it has answered, its response   *)
(* and the table as its last database call found it (before).               *)
Clients == 1 .. 2
Handlers == DOMAIN inflight

NoReq == [op |-> "none"]
NoResp == [status |-> 0]
Idle == [pc |-> "idle", req |-> NoReq, resp |-> NoResp, before |-> {}]

(* a handler suspended at the await of its write, and a handler that has   *)
(* sent its response; the request, the body of the response and the table  *)
(* are kept for the first client, whose requests the properties observe,   *)
(* and what the caller reads for the others: the status, and the list of a *)
(* GET                                                                     *)
Awaiting(pc, request) == [pc |-> pc, req |-> request, resp |-> NoResp, before |-> {}]
Answered(c, request, response, rows) ==
    IF c = 1
    THEN [pc |-> "done", req |-> request, resp |-> response, before |-> rows]
    ELSE [pc |-> "done", req |-> NoReq,
          resp |-> IF "events" \in DOMAIN response
                   THEN [status |-> response.status, events |-> response.events]
                   ELSE [status |-> response.status],
          before |-> {}]

(* the request, the response and the table read of the first client *)
req == inflight[1].req
resp == inflight[1].resp
before == inflight[1].before
idle == inflight[1].pc = "idle"

Init ==
    /\ store = {}
    /\ nextId = 1
    /\ inflight = [c \in Clients |-> Idle]
    /\ events = <<>>
    /\ error = "none"
    /\ loading = FALSE
    /\ currentDate = 0
    /\ modal = [isOpen |-> FALSE, eventToEdit |-> [id |-> NULL], isSubmitting |-> FALSE]
    /\ calls = <<>>
    /\ rejected = {}

pending(pc) == Cardinality({c \in Handlers : inflight[c].pc = pc})

(* POST /events: createEvent up to its await of prisma.event.create *)
createEventFind(c, title, startTime, endTime, rrule, recurrenceId, originalStartTime, isCancelled) ==
    LET newStart == startTime
        newEnd == endTime
        conflicts == createConflicts(store, newStart, newEnd, recurrenceId)
        request == [op |-> "createEvent", title |-> title, startTime |-> startTime,
                    endTime |-> endTime, rrule |-> rrule, recurrenceId |-> recurrenceId,
                    originalStartTime |-> originalStartTime, isCancelled |-> isCancelled]
    IN /\ inflight[c].pc = "idle"
       /\ UNCHANGED <<store, nextId, calendarVars>>
       /\ IF ~isCancelled /\ Blank(title)
          THEN inflight' = [inflight EXCEPT ![c] =
                   Answered(c, request, [status |-> 400, error |-> "title"], store)]
          ELSE IF ~isCancelled /\ newStart >= newEnd
          THEN inflight' = [inflight EXCEPT ![c] =
                   Answered(c, request, [status |-> 400, error |-> "time"], store)]
          ELSE IF conflicts # {}
          THEN \E conflictingEvent \in conflicts :
                  inflight' = [inflight EXCEPT ![c] =
                      Answered(c, request, [status |-> 409, conflict |-> conflictingEvent], store)]
          ELSE inflight' = [inflight EXCEPT ![c] = Awaiting("create", request)]

(* createEvent from the row prisma.event.create returns to its response *)
createEventPersist(c) ==
    LET h == inflight[c]
        event == [id |-> IdOf(nextId),
                  title |-> h.req.title,
                  startTime |-> h.req.startTime,
                  endTime |-> h.req.endTime,
                  rrule |-> h.req.rrule,
                  recurrenceId |-> h.req.recurrenceId,
                  originalStartTime |-> h.req.originalStartTime,
                  isCancelled |-> h.req.isCancelled]
    IN /\ h.pc = "create"
       /\ store' = store \cup {event}
       /\ nextId' = nextId + 1
       /\ inflight' = [inflight EXCEPT ![c] =
              Answered(c, h.req, [status |-> 201, event |-> event], store)]
       /\ UNCHANGED calendarVars

(* PUT /events/:id, as updateEvent of api.ts sends it: the router has       *)
(* get('/'), post('/') and delete('/:id') and nothing for PUT, so no        *)
(* handler runs, no database call is made and Express answers 404           *)
updateEvent(c, id, title, startTime, endTime, rrule) ==
    LET request == [op |-> "updateEvent", id |-> id, title |-> title, startTime |-> startTime,
                    endTime |-> endTime, rrule |-> rrule]
    IN /\ inflight[c].pc = "idle"
       /\ inflight' = [inflight EXCEPT ![c] = Answered(c, request, [status |-> 404], store)]
       /\ UNCHANGED <<store, nextId, calendarVars>>

(* every row of the series deleted along with one of its exceptions *)
rowsAfterDeleteSeries(rows, id) ==
    IF \E e \in rows : e.id = id /\ e.rrule # NULL
    THEN {e \in rows : e.recurrenceId # id /\ e.id # id}
    ELSE {e \in rows : /\ e.id # id
                       /\ \A x \in rows : (x.id = id /\ x.recurrenceId # NULL)
                                               => e.recurrenceId # x.recurrenceId}

(* the table after a successful deleteEvent(id) that nothing interleaves:  *)
(* the transaction for a row with rrule, the single delete otherwise       *)
rowsAfterDelete(rows, id) ==
    IF \E e \in rows : e.id = id /\ e.rrule # NULL
    THEN {e \in rows : e.recurrenceId # id /\ e.id # id}
    ELSE {e \in rows : e.id # id}

(* DELETE /events/:id: deleteEvent up to its await of the transaction or   *)
(* of the single delete; the row findUnique returned decides which         *)
deleteEventFind(c, id) ==
    LET request == [op |-> "deleteEvent", id |-> id,
                    isMaster |-> (id \in Ids /\ Row(id).rrule # NULL)]
    IN /\ inflight[c].pc = "idle"
       /\ UNCHANGED <<store, nextId, calendarVars>>
       /\ inflight' = [inflight EXCEPT ![c] = Awaiting("delete", request)]

(* a missing row deleted without complaint, as deleteMany would *)
deleteEventIgnoreMissing(c) ==
    LET h == inflight[c]
        id == h.req.id
    IN /\ h.pc = "delete"
       /\ UNCHANGED <<nextId, calendarVars>>
       /\ store' = IF h.req.isMaster
                   THEN {e \in store : e.recurrenceId # id /\ e.id # id}
                   ELSE {e \in store : e.id # id}
       /\ inflight' = [inflight EXCEPT ![c] =
              Answered(c, h.req, [status |-> 204], store)]

(* the deleteMany of the transaction dropped: only the row itself is deleted *)
deleteEventNoCascade(c) ==
    LET h == inflight[c]
        id == h.req.id
    IN /\ h.pc = "delete"
       /\ UNCHANGED <<nextId, calendarVars>>
       /\ IF id \notin Ids
          THEN /\ inflight' = [inflight EXCEPT ![c] =
                      Answered(c, h.req, [status |-> 404], store)]
               /\ UNCHANGED store
          ELSE /\ store' = store \ {Row(id)}
               /\ inflight' = [inflight EXCEPT ![c] =
                      Answered(c, h.req, [status |-> 204], store)]

(* deleteEvent from the outcome of the transaction, or of the single       *)
(* delete, to its response                                                 *)
deleteEventPersist(c) ==
    LET h == inflight[c]
        id == h.req.id
    IN /\ h.pc = "delete"
       /\ UNCHANGED <<nextId, calendarVars>>
       /\ IF id \notin Ids
          THEN /\ inflight' = [inflight EXCEPT ![c] =
                      Answered(c, h.req, [status |-> 404], store)]
               /\ UNCHANGED store
          ELSE /\ store' = IF h.req.isMaster
                           THEN {e \in store : e.recurrenceId # id /\ e.id # id}
                           ELSE store \ {Row(id)}
               /\ inflight' = [inflight EXCEPT ![c] =
                      Answered(c, h.req, [status |-> 204], store)]

(* GET /events?start=..&end=..: its one await is that of findMany *)
getEvents(c, start, end) ==
    LET windowStart == start
        windowEnd == end
        found == {e \in store : potentialEventsWhere(e, windowStart, windowEnd)}
        request == [op |-> "getEvents", start |-> start, end |-> end]
    IN /\ inflight[c].pc = "idle"
       /\ UNCHANGED <<store, nextId, calendarVars>>
       /\ \E potentialEvents \in Orders(found) :
             inflight' = [inflight EXCEPT ![c] =
                 Answered(c, request,
                          [status |-> 200,
                           events |-> finalEvents(potentialEvents, windowStart, windowEnd)],
                          store)]

(* the response has reached the client, which may send its next request *)
Respond(c) ==
    /\ inflight[c].pc = "done"
    /\ inflight' = [inflight EXCEPT ![c] = Idle]
    /\ UNCHANGED <<store, nextId, calendarVars>>

(* ---------------- the requests the model issues ---------------- *)
(* Intervals a client may send: every proper one, and one of zero length.  *)
Intervals == {iv \in Times \X Times : iv[1] < iv[2] \/ (iv[1] = iv[2] /\ iv[1] = 1)}
ProperIntervals == {iv \in Intervals : iv[1] < iv[2]}
Windows == {w \in WindowTimes \X WindowTimes : w[1] < w[2]}
(* ids a client can name: those the server has issued, and one it never did *)
KnownIds == IssuedIds \cup {"e0"}

(* a client sends a request that is going to store a row only while the    *)
(* rows stored and about to be stored are fewer than MaxEvents              *)
Room(c) == inflight'[c].pc = "create" => nextId + pending("create") <= MaxEvents

(* a plain or a recurring event, as EventModal submits it *)
CreatePlain(c) ==
    \E title \in Titles, iv \in Intervals, rrule \in {NULL} \cup Rules :
        /\ createEventFind(c, title, iv[1], iv[2], rrule, NULL, NullTime, FALSE)
        /\ Room(c)

(* an exception of a series: a moved or edited occurrence *)
(* (handleDragEnd, handleSaveEvent)                        *)
CreateException(c) ==
    \E iv \in Intervals, recurrenceId \in IssuedIds, originalStartTime \in Times :
        /\ createEventFind(c, "a", iv[1], iv[2], NULL, recurrenceId, originalStartTime, FALSE)
        /\ Room(c)

(* a cancelled occurrence, as handleDelete submits it: the interval is that *)
(* of the occurrence, so startTime = originalStartTime                      *)
CreateCancellation(c) ==
    \E iv \in Intervals, recurrenceId \in IssuedIds :
        /\ createEventFind(c, "a", iv[1], iv[2], NULL, recurrenceId, iv[1], TRUE)
        /\ Room(c)

(* a cancellation marker that names no series and carries no title *)
CreateMarker(c) ==
    \E iv \in Intervals :
        /\ createEventFind(c, "", iv[1], iv[2], NULL, NULL, NullTime, TRUE)
        /\ Room(c)

Update(c) ==
    \E id \in KnownIds, title \in Titles, iv \in Intervals, rrule \in {UNDEFINED} \cup Rules :
        updateEvent(c, id, title, iv[1], iv[2], rrule)

Delete(c) == \E id \in KnownIds : deleteEventFind(c, id)

Get(c) == \E w \in Windows : getEvents(c, w[1], w[2])

(* ---------------- requests served one at a time ---------------- *)
(* One client, which sends a request once it has the response to the one   *)
(* before: no handler runs between two awaits of another.                  *)
SeqNext ==
    \/ CreatePlain(1)
    \/ CreateException(1)
    \/ CreateCancellation(1)
    \/ CreateMarker(1)
    \/ Update(1)
    \/ Delete(1)
    \/ Get(1)
    \/ createEventPersist(1)
    \/ deleteEventPersist(1)
    \/ Respond(1)

SeqSpec == Init /\ [][SeqNext]_vars

(* ---------------- requests served as they arrive ---------------- *)
(* Every client sends requests; at each await of a handler the server may  *)
(* run a step of another.  The requests are those of a calendar whose      *)
(* events have a title and a proper interval.                              *)
ConcCreate ==
    \E c \in Clients, iv \in ProperIntervals, rrule \in {NULL} \cup Rules :
        /\ createEventFind(c, "a", iv[1], iv[2], rrule, NULL, NullTime, FALSE)
        /\ Room(c)

ConcUpdate ==
    \E c \in Clients, id \in IssuedIds, iv \in ProperIntervals, rrule \in {UNDEFINED} \cup Rules :
        updateEvent(c, id, "a", iv[1], iv[2], rrule)

ConcDelete == \E c \in Clients, id \in IssuedIds : deleteEventFind(c, id)

Next ==
    \/ ConcCreate
    \/ ConcUpdate
    \/ ConcDelete
    \/ \E c \in Clients : createEventPersist(c)
    \/ \E c \in Clients : deleteEventPersist(c)
    \/ \E c \in Clients : Respond(c)

Spec == Init /\ [][Next]_vars

(* ======================================================================= *)
(* The Calendar component and its EventModal, as the client of the server   *)
(* above.  The week shown starts at currentDate (a Monday), events is the   *)
(* list last set by setEvents: entries as getEvents returns them.  Every    *)
(* run of a handler that calls the API is an entry of calls: the await it   *)
(* is suspended at (pc), the request it has sent and what it captured.  The *)
(* request of run h is handled by the server as inflight[h]; the request    *)
(* reaching the server, each database call of its handler and the response  *)
(* reaching the component are separate steps, and a request or its response *)
(* may be lost on the way.                                                  *)
(* ======================================================================= *)
Slots == 1 .. MaxSlot
Weeks == {0, 1}
Mondays == {w * DaysPerWeek * TicksPerDay : w \in Weeks}

(* no event: eventToEdit = null, no event captured *)
NoEvent == [id |-> NULL]

(* a stored row that lasts one tick *)
StoredRow(id, startTime, rrule) ==
    [id |-> id, title |-> "a", startTime |-> startTime, endTime |-> startTime + 1,
     rrule |-> rrule, recurrenceId |-> NULL, originalStartTime |-> NullTime,
     isCancelled |-> FALSE]

(* a handler that has returned *)
Over ==
    [handler |-> "none", pc |-> "over", request |-> NoReq, event |-> NoEvent,
     originalEvents |-> <<>>, startDate |-> 0]

(* a handler that has sent a write and awaits it *)
ApiCall(handler, request, event) ==
    [handler |-> handler, pc |-> "api", request |-> request, event |-> event,
     originalEvents |-> events, startDate |-> currentDate]

(* loadEvents up to its await of fetchEvents *)
loadEvents(call) == [call EXCEPT !.pc = "fetch"]

(* the tables the component is started on: a single event and a series     *)
(* with one occurrence a year, or that series alone                         *)
CalendarTables ==
    {{StoredRow(IdOf(1), 1, NULL), StoredRow(IdOf(2), 2, "FREQ=YEARLY")},
     {StoredRow(IdOf(1), 2, "FREQ=YEARLY")}}

(* the component once mounted: useEffect has called loadEvents *)
CalendarInit ==
    /\ store \in CalendarTables
    /\ nextId = Cardinality(store) + 1
    /\ inflight = [h \in 1 .. MaxCalls |-> Idle]
    /\ events = <<>>
    /\ error = "none"
    /\ loading = TRUE
    /\ currentDate = 0
    /\ modal = [isOpen |-> FALSE, eventToEdit |-> NoEvent, isSubmitting |-> FALSE]
    /\ calls = <<loadEvents([Over EXCEPT !.handler = "useEffect"])>>
    /\ rejected = {}

Calls == DOMAIN calls

(* a drag that has ended is looked at before anything else happens *)
Ended == {"failed", "reloaded", "reloadFailed"}
settled == \A h \in Calls : calls[h].pc \notin Ended

(* the user may start another handler *)
mayCall == settled /\ Len(calls) < MaxCalls

(* the events of the list that are rendered: those that start in the week   *)
(* shown                                                                    *)
startDate == currentDate
Rendered ==
    {events[i] : i \in {k \in 1 .. Len(events) :
        ~(events[k].startTime < startDate
          \/ events[k].startTime > startDate + DaysPerWeek * TicksPerDay)}}

(* the response to the request of run h has arrived: its status *)
answered(h) == inflight[h].pc = "done"
ok(h) == answered(h) /\ inflight[h].resp.status \in {200, 201, 204}
failed(h) == answered(h) /\ inflight[h].resp.status \notin {200, 201, 204}

(* the response read, or given up: the handler of the server, if it has     *)
(* answered, is forgotten                                                   *)
Received(h) == IF answered(h) THEN [inflight EXCEPT ![h] = Idle] ELSE inflight

(* ---------------- api.ts: the requests reach the server ---------------- *)
fetchEvents(h) ==
    /\ settled
    /\ calls[h].pc = "fetch"
    /\ getEvents(h, calls[h].startDate - DaysPerWeek * TicksPerDay,
                    calls[h].startDate + 2 * DaysPerWeek * TicksPerDay)

createEvent(h) ==
    LET data == calls[h].request
    IN /\ settled
       /\ calls[h].pc = "api"
       /\ data.op = "createEvent"
       /\ createEventFind(h, data.title, data.startTime, data.endTime, data.rrule,
                          data.recurrenceId, data.originalStartTime, data.isCancelled)

putEvent(h) ==
    LET data == calls[h].request
    IN /\ settled
       /\ calls[h].pc = "api"
       /\ data.op = "updateEvent"
       /\ updateEvent(h, data.id, data.title, data.startTime, data.endTime, data.rrule)

deleteEvent(h) ==
    /\ settled
    /\ calls[h].pc = "api"
    /\ calls[h].request.op = "deleteEvent"
    /\ deleteEventFind(h, calls[h].request.id)

(* ---------------- loadEvents ---------------- *)
(* what the caller of loadEvents does once loadEvents has returned:         *)
(* handleDragEnd ends, handleSubmit of the modal closes it, the others      *)
(* return                                                                   *)
afterLoad(h, pc) ==
    /\ calls' = [calls EXCEPT ![h] = IF calls[h].handler = "handleDragEnd"
                                     THEN [@ EXCEPT !.pc = pc]
                                     ELSE Over]
    /\ modal' = IF calls[h].handler = "handleSaveEvent"
                THEN [isOpen |-> FALSE, eventToEdit |-> NoEvent, isSubmitting |-> FALSE]
                ELSE modal

(* fetchEvents has returned: setEvents(data), setLoading(false) *)
loadEventsData(h) ==
    /\ settled
    /\ calls[h].pc = "fetch"
    /\ ok(h)
    /\ events' = inflight[h].resp.events
    /\ loading' = FALSE
    /\ afterLoad(h, "reloaded")
    /\ inflight' = IF calls[h].handler = "handleDragEnd" THEN inflight ELSE Received(h)
    /\ UNCHANGED <<store, nextId, error, currentDate, rejected>>

(* fetchEvents has thrown: the request or its response was lost *)
loadEventsCatch(h) ==
    /\ settled
    /\ calls[h].pc = "fetch"
    /\ error' = "load"
    /\ loading' = FALSE
    /\ afterLoad(h, "reloadFailed")
    /\ inflight' = Received(h)
    /\ UNCHANGED <<store, nextId, events, currentDate, rejected>>

(* ---------------- week navigation ---------------- *)
(* the buttons of the header, then useEffect: loadEvents for the new week *)
setCurrentDate(date) ==
    /\ mayCall
    /\ date \in {currentDate - DaysPerWeek * TicksPerDay, currentDate + DaysPerWeek * TicksPerDay}
    /\ currentDate' = date
    /\ error' = "none"
    /\ loading' = TRUE
    /\ calls' = Append(calls, loadEvents([Over EXCEPT !.handler = "useEffect", !.startDate = date]))
    /\ UNCHANGED <<serverVars, events, modal, rejected>>

(* ---------------- handleDragEnd ---------------- *)
(* the events with the dragged one at its new interval *)
RECURSIVE MoveIn(_, _, _, _)
MoveIn(list, id, newStart, newEnd) ==
    IF list = <<>> THEN <<>>
    ELSE <<IF Head(list).id = id
           THEN [Head(list) EXCEPT !.startTime = newStart, !.endTime = newEnd]
           ELSE Head(list)>>
         \o MoveIn(Tail(list), id, newStart, newEnd)

(* the drop of a rendered event, with a delta that is not zero: the         *)
(* optimistic update and the request (createEvent of an exception for an    *)
(* instance of a series, updateEvent otherwise)                             *)
handleDragEnd(draggedEvent, newStart) ==
    LET duration == draggedEvent.endTime - draggedEvent.startTime
        newEnd == newStart + duration
        request ==
            IF draggedEvent.isRecurringInstance
            THEN [op |-> "createEvent", title |-> draggedEvent.title,
                  startTime |-> newStart, endTime |-> newEnd, rrule |-> NULL,
                  recurrenceId |-> draggedEvent.masterId,
                  originalStartTime |-> draggedEvent.startTime, isCancelled |-> FALSE]
            ELSE [op |-> "updateEvent", id |-> draggedEvent.id, title |-> draggedEvent.title,
                  startTime |-> newStart, endTime |-> newEnd, rrule |-> UNDEFINED]
    IN /\ mayCall
       /\ draggedEvent \in Rendered
       /\ events' = MoveIn(events, draggedEvent.id, newStart, newEnd)
       /\ calls' = Append(calls, ApiCall("handleDragEnd", request, draggedEvent))
       /\ rejected' = {r \in rejected : r[1] # draggedEvent.id}
       /\ UNCHANGED <<serverVars, error, loading, currentDate, modal>>

(* the request has succeeded: loadEvents *)
handleDragEndReload(h) ==
    /\ settled
    /\ calls[h].handler = "handleDragEnd"
    /\ calls[h].pc = "api"
    /\ ok(h)
    /\ error' = "none"
    /\ loading' = TRUE
    /\ calls' = [calls EXCEPT ![h] = loadEvents(@)]
    /\ inflight' = Received(h)
    /\ UNCHANGED <<store, nextId, events, currentDate, modal, rejected>>

(* the drop put the event at another start than the one it was shown at *)
Moved(call) ==
    IF call.request.op = "createEvent"
    THEN call.request.startTime # call.request.originalStartTime
    ELSE call.request.startTime # call.event.startTime

(* the server has not taken the request, or has turned it down *)
Refused(h) == inflight[h].pc = "idle" \/ failed(h)

(* the request has failed: answered with an error, or lost on the way there *)
(* or back; the starts the server did not accept are remembered             *)
handleDragEndCatch(h) ==
    /\ settled
    /\ calls[h].handler = "handleDragEnd"
    /\ calls[h].pc = "api"
    /\ error' = "move"
    /\ events' = calls[h].originalEvents
    /\ calls' = [calls EXCEPT ![h].pc = "failed"]
    /\ rejected' = IF Refused(h) /\ Moved(calls[h])
                   THEN rejected \cup {<<calls[h].event.id, calls[h].request.startTime>>}
                   ELSE rejected
    /\ inflight' = Received(h)
    /\ UNCHANGED <<store, nextId, loading, currentDate, modal>>

(* handleDragEnd returns *)
handleDragEndReturn(h) ==
    /\ calls[h].pc \in Ended
    /\ calls' = [calls EXCEPT ![h] = Over]
    /\ inflight' = Received(h)
    /\ UNCHANGED <<store, nextId, events, error, loading, currentDate, modal, rejected>>

(* ---------------- handleDelete ---------------- *)
(* the click on the bin of a rendered event, confirmed: createEvent of a    *)
(* cancellation for an instance of a series, deleteEvent otherwise          *)
handleDelete(eventToDelete) ==
    LET request ==
            IF eventToDelete.isRecurringInstance
            THEN [op |-> "createEvent",
                  title |-> IF eventToDelete.title = "" THEN "Cancelled" ELSE eventToDelete.title,
                  startTime |-> eventToDelete.startTime, endTime |-> eventToDelete.endTime,
                  rrule |-> NULL, recurrenceId |-> eventToDelete.masterId,
                  originalStartTime |-> eventToDelete.startTime, isCancelled |-> TRUE]
            ELSE [op |-> "deleteEvent", id |-> eventToDelete.id]
    IN /\ mayCall
       /\ eventToDelete \in Rendered
       /\ calls' = Append(calls, ApiCall("handleDelete", request, eventToDelete))
       /\ UNCHANGED <<serverVars, events, error, loading, currentDate, modal, rejected>>

RECURSIVE FilterOut(_, _)
FilterOut(list, id) ==
    IF list = <<>> THEN <<>>
    ELSE (IF Head(list).id # id THEN <<Head(list)>> ELSE <<>>) \o FilterOut(Tail(list), id)

(* the request has succeeded: loadEvents for an instance of a series or an  *)
(* event with a rule, the event filtered out of the list otherwise          *)
handleDeleteDone(h) ==
    /\ settled
    /\ calls[h].handler = "handleDelete"
    /\ calls[h].pc = "api"
    /\ ok(h)
    /\ IF calls[h].event.isRecurringInstance \/ calls[h].event.rrule # NULL
       THEN /\ error' = "none"
            /\ loading' = TRUE
            /\ calls' = [calls EXCEPT ![h] = loadEvents(@)]
            /\ UNCHANGED events
       ELSE /\ events' = FilterOut(events, calls[h].event.id)
            /\ calls' = [calls EXCEPT ![h] = Over]
            /\ UNCHANGED <<error, loading>>
    /\ inflight' = Received(h)
    /\ UNCHANGED <<store, nextId, currentDate, modal, rejected>>

(* the request has failed *)
handleDeleteCatch(h) ==
    /\ settled
    /\ calls[h].handler = "handleDelete"
    /\ calls[h].pc = "api"
    /\ error' = "delete"
    /\ calls' = [calls EXCEPT ![h] = Over]
    /\ inflight' = Received(h)
    /\ UNCHANGED <<store, nextId, events, loading, currentDate, modal, rejected>>

(* ---------------- the modal ---------------- *)
(* the Add Event button *)
openAddModal ==
    /\ settled
    /\ modal' = [modal EXCEPT !.isOpen = TRUE, !.eventToEdit = NoEvent]
    /\ modal' # modal
    /\ UNCHANGED <<serverVars, events, error, loading, currentDate, calls, rejected>>

(* the click on a rendered event *)
openEditModal(event) ==
    /\ settled
    /\ event \in Rendered
    /\ modal' = [modal EXCEPT !.isOpen = TRUE, !.eventToEdit = event]
    /\ modal' # modal
    /\ UNCHANGED <<serverVars, events, error, loading, currentDate, calls, rejected>>

(* the X and the Cancel button of the modal *)
onClose ==
    /\ settled
    /\ modal.isOpen
    /\ modal' = [modal EXCEPT !.isOpen = FALSE, !.eventToEdit = NoEvent]
    /\ UNCHANGED <<serverVars, events, error, loading, currentDate, calls, rejected>>

(* ---------------- handleSaveEvent ---------------- *)
(* the form submitted (handleSubmit of the modal, its button enabled) with  *)
(* a title, the interval [startTime, startTime + 1) and, if it repeats, a   *)
(* rule: createEvent of an exception when an instance of a series is        *)
(* edited, updateEvent when another event is, createEvent of a new event    *)
(* otherwise                                                                *)
handleSaveEvent(startTime, rrule) ==
    LET eventToEdit == modal.eventToEdit
        isEditMode == eventToEdit # NoEvent /\ ~eventToEdit.isRecurringInstance
        data == [title |-> "a", startTime |-> startTime, endTime |-> startTime + 1,
                 rrule |-> rrule]
        request ==
            IF eventToEdit # NoEvent /\ eventToEdit.isRecurringInstance
            THEN [op |-> "createEvent", title |-> data.title,
                  startTime |-> data.startTime, endTime |-> data.endTime, rrule |-> NULL,
                  recurrenceId |-> eventToEdit.masterId,
                  originalStartTime |-> eventToEdit.startTime, isCancelled |-> FALSE]
            ELSE IF isEditMode
            THEN [op |-> "updateEvent", id |-> eventToEdit.id, title |-> data.title,
                  startTime |-> data.startTime, endTime |-> data.endTime,
                  rrule |-> IF data.rrule = NULL THEN UNDEFINED ELSE data.rrule]
            ELSE [op |-> "createEvent", title |-> data.title,
                  startTime |-> data.startTime, endTime |-> data.endTime, rrule |-> data.rrule,
                  recurrenceId |-> NULL, originalStartTime |-> NullTime, isCancelled |-> FALSE]
    IN /\ mayCall
       /\ modal.isOpen
       /\ ~modal.isSubmitting
       /\ modal' = [modal EXCEPT !.isSubmitting = TRUE]
       /\ calls' = Append(calls, ApiCall("handleSaveEvent", request, eventToEdit))
       /\ UNCHANGED <<serverVars, events, error, loading, currentDate, rejected>>

(* the request has succeeded: loadEvents *)
handleSaveEventReload(h) ==
    /\ settled
    /\ calls[h].handler = "handleSaveEvent"
    /\ calls[h].pc = "api"
    /\ ok(h)
    /\ error' = "none"
    /\ loading' = TRUE
    /\ calls' = [calls EXCEPT ![h] = loadEvents(@)]
    /\ inflight' = Received(h)
    /\ UNCHANGED <<store, nextId, events, currentDate, modal, rejected>>

(* the request has failed: the rejection goes to handleSubmit of the modal, *)
(* which shows it and enables its button again                              *)
handleSaveEventThrow(h) ==
    /\ settled
    /\ calls[h].handler = "handleSaveEvent"
    /\ calls[h].pc = "api"
    /\ calls' = [calls EXCEPT ![h] = Over]
    /\ modal' = [modal EXCEPT !.isSubmitting = FALSE]
    /\ inflight' = Received(h)
    /\ UNCHANGED <<store, nextId, events, error, loading, currentDate, rejected>>

(* the button of the error toast: setError(null) *)
setErrorNull ==
    /\ settled
    /\ error # "none"
    /\ error' = "none"
    /\ UNCHANGED <<serverVars, events, loading, currentDate, modal, calls, rejected>>

CalendarNext ==
    \/ \E date \in Mondays : setCurrentDate(date)
    \/ \E draggedEvent \in Rendered, newStart \in Slots : handleDragEnd(draggedEvent, newStart)
    \/ \E eventToDelete \in Rendered : handleDelete(eventToDelete)
    \/ openAddModal
    \/ \E event \in Rendered : openEditModal(event)
    \/ onClose
    \/ \E startTime \in Slots, rrule \in {NULL, "FREQ=YEARLY"} : handleSaveEvent(startTime, rrule)
    \/ setErrorNull
    \/ \E h \in Calls : fetchEvents(h)
    \/ \E h \in Calls : createEvent(h)
    \/ \E h \in Calls : putEvent(h)
    \/ \E h \in Calls : deleteEvent(h)
    \/ \E h \in Calls : settled /\ createEventPersist(h)
    \/ \E h \in Calls : settled /\ deleteEventPersist(h)
    \/ \E h \in Calls : loadEventsData(h)
    \/ \E h \in Calls : loadEventsCatch(h)
    \/ \E h \in Calls : handleDragEndReload(h)
    \/ \E h \in Calls : handleDragEndCatch(h)
    \/ \E h \in Calls : handleDragEndReturn(h)
    \/ \E h \in Calls : handleDeleteDone(h)
    \/ \E h \in Calls : handleDeleteCatch(h)
    \/ \E h \in Calls : handleSaveEventReload(h)
    \/ \E h \in Calls : handleSaveEventThrow(h)

CalendarSpec == CalendarInit /\ [][CalendarNext]_vars

(* ======================================================================= *)
(* Properties                                                              *)
(* ======================================================================= *)
(* half-open intervals [s1,e1) and [s2,e2) share an instant *)
Overlap(s1, e1, s2, e2) == s1 < e2 /\ s2 < e1

(* the first client has the response to its request op *)
done(op) == inflight[1].pc = "done" /\ req.op = op
validated == resp.status # 400
BeforeIds == {e.id : e \in before}
BeforeRow(id) == CHOOSE e \in before : e.id = id

(* the entries of the list getEvents has just returned *)
Listed == {resp.events[i] : i \in 1 .. Len(resp.events)}

(* C1: no two entries of a list returned by getEvents (stored rows or       *)
(* generated occurrences) have overlapping intervals [startTime, endTime).  *)
C1_NoVisibleOverlap ==
    done("getEvents") =>
        \A i, j \in 1 .. Len(resp.events) :
            i < j => ~Overlap(resp.events[i].startTime, resp.events[i].endTime,
                              resp.events[j].startTime, resp.events[j].endTime)

(* the stored rows a createEvent request must not overlap *)
CreateRivals ==
    {e \in before : /\ Overlap(req.startTime, req.endTime, e.startTime, e.endTime)
                    /\ e.id # req.recurrenceId}

(* C2: a validated createEvent whose interval overlaps a stored row other   *)
(* than the one named by recurrenceId answers 409 with a stored row that    *)
(* overlaps the interval and leaves the table as it was; it inserts a row   *)
(* only when there is no such row.                                          *)
C2_CreateConflict ==
    (done("createEvent") /\ validated) =>
        IF CreateRivals # {}
        THEN /\ resp.status = 409
             /\ resp.conflict \in before
             /\ Overlap(req.startTime, req.endTime,
                        resp.conflict.startTime, resp.conflict.endTime)
             /\ store = before
        ELSE /\ resp.status = 201
             /\ resp.event \notin before
             /\ store = before \cup {resp.event}

C2_Witness ==
    /\ done("createEvent")
    /\ resp.status = 409
    /\ req.recurrenceId \in BeforeIds
    /\ Cardinality(before) >= 2

(* the row a write request leaves out of its conflict test *)
Excluded == IF done("createEvent") THEN req.recurrenceId ELSE req.id

(* C3: the conflict test of createEvent and of updateEvent reports a        *)
(* conflict exactly when some stored row [s2,e2) that is not left out has   *)
(* s1 < e2 and s2 < e1 for the candidate [s1,e1); a row that only touches   *)
(* the candidate is never the reported conflict, and the test gives the     *)
(* same verdict for two stored intervals whichever of them is the           *)
(* candidate.  For createEvent the test is read off its responses, for      *)
(* updateEvent off the query of the handler, on every table reached.        *)
C3_HalfOpenOverlap ==
    /\ (done("createEvent") /\ validated) =>
          /\ (resp.status = 409) <=>
                (\E e \in before : /\ e.id # Excluded
                                   /\ req.startTime < e.endTime
                                   /\ e.startTime < req.endTime)
          /\ (resp.status = 409) =>
                /\ resp.conflict.endTime # req.startTime
                /\ resp.conflict.startTime # req.endTime
    /\ \A id \in KnownIds, iv \in Intervals :
          /\ updateConflicts(store, id, iv[1], iv[2]) =
                {e \in store : e.id # id /\ iv[1] < e.endTime /\ e.startTime < iv[2]}
          /\ \A e \in updateConflicts(store, id, iv[1], iv[2]) :
                e.endTime # iv[1] /\ e.startTime # iv[2]
    /\ \A a, b \in store :
          overlapWhere(a, b.startTime, b.endTime) <=> overlapWhere(b, a.startTime, a.endTime)

C3_Witness ==
    /\ done("createEvent")
    /\ resp.status = 201
    /\ \E e \in before : e.id # Excluded /\ e.startTime < e.endTime /\ e.endTime = req.startTime
    /\ \E e \in before : e.id # Excluded /\ e.startTime < e.endTime /\ e.startTime = req.endTime
    /\ \E id \in KnownIds, iv \in Intervals :
          /\ updateConflicts(before, id, iv[1], iv[2]) = {}
          /\ \E e \in before : e.id # id /\ e.endTime = iv[1]

(* C4: however two concurrent createEvent (or updateEvent) requests are     *)
(* interleaved, the table never holds two overlapping rows that the         *)
(* conflict test would have rejected one after the other: two stored rows   *)
(* overlap only if one names the other by recurrenceId.                     *)
C4_NoOverlapUnderInterleaving ==
    \A a, b \in store :
        (a.id # b.id /\ Overlap(a.startTime, a.endTime, b.startTime, b.endTime))
            => (a.recurrenceId = b.id \/ b.recurrenceId = a.id)

(* the stored rows other than the target that an updateEvent request overlaps *)
UpdateRivals ==
    {e \in before : /\ e.id # req.id
                    /\ Overlap(req.startTime, req.endTime, e.startTime, e.endTime)}

(* C5: updateEvent on row X never reports X as the conflict; a validated    *)
(* update of a stored X that overlaps no other row succeeds even when it    *)
(* overlaps X's stored interval; one that overlaps another row answers 409  *)
(* and leaves the table as it was.                                          *)
C5_UpdateExcludesSelf ==
    (done("updateEvent") /\ validated) =>
        /\ (resp.status = 409) => (resp.conflict.id # req.id /\ resp.conflict \in UpdateRivals)
        /\ (UpdateRivals # {}) => (resp.status = 409 /\ store = before)
        /\ (UpdateRivals = {} /\ req.id \in BeforeIds) =>
              /\ resp.status = 200
              /\ resp.event.id = req.id
              /\ resp.event.startTime = req.startTime
              /\ resp.event.endTime = req.endTime
              /\ store = (before \ {BeforeRow(req.id)}) \cup {resp.event}

(* the request creates an exception of the stored master M *)
ExceptionOfMaster ==
    /\ done("createEvent")
    /\ validated
    /\ req.recurrenceId \in BeforeIds
    /\ BeforeRow(req.recurrenceId).rrule # NULL

(* C6: createEvent for an exception of master M never reports M as the      *)
(* conflict, and inserts the exception when M is the only stored row that   *)
(* overlaps its interval.                                                   *)
C6_ExceptionExcludesMaster ==
    ExceptionOfMaster =>
        /\ (resp.status = 409) => resp.conflict.id # req.recurrenceId
        /\ (\A e \in before :
               Overlap(req.startTime, req.endTime, e.startTime, e.endTime)
                   => e.id = req.recurrenceId)
              => /\ resp.status = 201
                 /\ resp.event.recurrenceId = req.recurrenceId
                 /\ resp.event \in store

C6_Witness ==
    /\ ExceptionOfMaster
    /\ resp.status = 201
    /\ req.originalStartTime # NullTime
    /\ Overlap(req.startTime, req.endTime,
               BeforeRow(req.recurrenceId).startTime, BeforeRow(req.recurrenceId).endTime)

(* the instants getEvents has generated, read off its list: the start of    *)
(* every generated instance and the original start of every listed exception *)
ListedInstants ==
    {e.startTime : e \in {x \in Listed : x.isRecurringInstance}}
    \cup {e.originalStartTime : e \in {x \in Listed : ~x.isRecurringInstance /\ isException(x)}}

(* C7: every occurrence instant i that getEvents generates for a window     *)
(* [windowStart, windowEnd) has windowStart <= i < windowEnd.               *)
C7_OccurrencesInWindow ==
    done("getEvents") =>
        \A i \in ListedInstants : req.start <= i /\ i < req.end

C7_Witness ==
    /\ done("getEvents")
    /\ \E e \in Listed : e.isRecurringInstance /\ e.startTime + 1 = req.end
    /\ \E e \in Listed : ~e.isRecurringInstance /\ isException(e)

(* the instants at which master m's rule places an occurrence in [a, b) *)
RulePlaces(m, a, b) ==
    {t \in RuleOccurrences(m.rrule, m.startTime, b) : a <= t /\ t < b}

ExceptionsAt(rows, id, t) ==
    {e \in rows : isException(e) /\ e.recurrenceId = id /\ e.originalStartTime = t}

(* C8: every instant at which a master's rule places an occurrence and      *)
(* which lies in [windowStart, windowEnd) is generated by getEvents, an     *)
(* occurrence that starts exactly at windowStart included: the list holds   *)
(* the generated instance, or a stored exception of that slot when there is *)
(* one and none of them is a cancellation.                                  *)
C8_AllOccurrencesGenerated ==
    done("getEvents") =>
        \A m \in {e \in before : isMaster(e)} :
            \A t \in RulePlaces(m, req.start, req.end) :
                IF ExceptionsAt(before, m.id, t) = {}
                THEN \E e \in Listed : /\ e.isRecurringInstance
                                       /\ e.masterId = m.id
                                       /\ e.startTime = t
                ELSE (\A x \in ExceptionsAt(before, m.id, t) : ~x.isCancelled)
                        => \E x \in ExceptionsAt(before, m.id, t) : Persisted(x) \in Listed

Masters(rows) == {e \in rows : isMaster(e)}

GeneratedAt(id, t) ==
    {e \in Listed : e.isRecurringInstance /\ e.masterId = id /\ e.startTime = t}

(* the stored cancellations of an occurrence of a stored master *)
Cancellations ==
    {c \in before : /\ isException(c)
                    /\ c.isCancelled
                    /\ c.recurrenceId \in {m.id : m \in Masters(before)}}

(* C9: with a cancellation of (M, t) stored, the list getEvents returns for *)
(* any window holds neither a generated instance of M at t nor the          *)
(* cancellation row, and every other occurrence the rule of M places in     *)
(* [windowStart, windowEnd) is still there (generated, or handed to a       *)
(* stored exception of its own slot).                                       *)
C9_CancellationHidesOnlyItsSlot ==
    done("getEvents") =>
        \A c \in Cancellations :
            LET m == BeforeRow(c.recurrenceId)
                t == c.originalStartTime
            IN /\ GeneratedAt(m.id, t) = {}
               /\ Persisted(c) \notin Listed
               /\ \A u \in RulePlaces(m, req.start, req.end) \ {t} :
                     GeneratedAt(m.id, u) # {} \/ ExceptionsAt(before, m.id, u) # {}

(* the places of the list that stand for master id's occurrence at t *)
SlotEntries(id, t) ==
    {i \in 1 .. Len(resp.events) :
        LET e == resp.events[i]
        IN \/ e.isRecurringInstance /\ e.masterId = id /\ e.startTime = t
           \/ ~e.isRecurringInstance /\ isException(e)
              /\ e.recurrenceId = id /\ e.originalStartTime = t}

(* the stored modifications of an occurrence getEvents has generated *)
Modifications ==
    {x \in before :
        /\ isException(x)
        /\ ~x.isCancelled
        /\ x.recurrenceId \in {m.id : m \in Masters(before)}
        /\ x.originalStartTime \in between(BeforeRow(x.recurrenceId).rrule,
                                           BeforeRow(x.recurrenceId).startTime,
                                           req.start, req.end)}

SlotIsException(x) ==
    /\ Cardinality(SlotEntries(x.recurrenceId, x.originalStartTime)) = 1
    /\ \A i \in SlotEntries(x.recurrenceId, x.originalStartTime) :
          resp.events[i] = Persisted(x)

(* C10 as stated: for every stored modification of a generated occurrence   *)
(* (M, t), the list holds exactly one entry for the slot and it is that     *)
(* exception row.                                                           *)
C10_Original ==
    done("getEvents") => \A x \in Modifications : SlotIsException(x)

(* C10, amended: the same, for a modification that is the only stored       *)
(* exception with its key (M, t).                                           *)
C10_ModificationReplacesOccurrence ==
    done("getEvents") =>
        \A x \in Modifications :
            ExceptionsAt(before, x.recurrenceId, x.originalStartTime) = {x}
                => SlotIsException(x)

C10_Witness ==
    /\ done("getEvents")
    /\ \E x \in Modifications :
          /\ ExceptionsAt(before, x.recurrenceId, x.originalStartTime) = {x}
          /\ x.startTime # x.originalStartTime
          /\ \E e \in Listed : e.isRecurringInstance /\ e.masterId = x.recurrenceId

(* C11: every generated instance in a list returned by getEvents stands for *)
(* an occurrence instant i of a stored master M: its startTime is i, its    *)
(* endTime is i + (M.endTime - M.startTime), its masterId is M.id, it is    *)
(* flagged as a recurring instance and its id is built from M.id and i; so  *)
(* it lasts exactly as long as the master row.                              *)
C11_VirtualInstanceShape ==
    done("getEvents") =>
        \A e \in Listed :
            e.isRecurringInstance =>
                /\ e.masterId \in {m.id : m \in Masters(before)}
                /\ LET M == BeforeRow(e.masterId)
                       i == e.startTime
                   IN /\ i \in RuleOccurrences(M.rrule, M.startTime, req.end)
                      /\ e.endTime = i + (M.endTime - M.startTime)
                      /\ e.endTime - e.startTime = M.endTime - M.startTime
                      /\ e.id = M.id \o "_" \o ToString(i)
                      /\ e.title = M.title

C11_Witness ==
    /\ done("getEvents")
    /\ \E e \in Listed :
          /\ e.isRecurringInstance
          /\ e.startTime > BeforeRow(e.masterId).startTime
          /\ e.endTime - e.startTime = 2

(* C12: the list returned by getEvents is in ascending order of startTime   *)
(* over all its entries together.                                           *)
C12_AscendingStartTime ==
    done("getEvents") =>
        \A i, j \in 1 .. Len(resp.events) :
            i < j => resp.events[i].startTime <= resp.events[j].startTime

(* C13: every entry of the list getEvents returns for the window            *)
(* [windowStart, windowEnd) has an interval [startTime, endTime) that       *)
(* intersects the window, a modification exception moved away from its     *)
(* originalStartTime included.                                              *)
C13_EntriesVisibleInWindow ==
    done("getEvents") =>
        \A e \in Listed : Overlap(e.startTime, e.endTime, req.start, req.end)

(* C14: deleteEvent on a stored master removes, in one step, exactly the    *)
(* master and every row whose recurrenceId is its id, and nothing else;     *)
(* deleteEvent on a stored row that is not a master removes exactly that    *)
(* row.                                                                     *)
C14_DeleteCascade ==
    (done("deleteEvent") /\ req.id \in BeforeIds) =>
        /\ resp.status = 204
        /\ IF isMaster(BeforeRow(req.id))
           THEN store = before \ {e \in before : e.id = req.id \/ e.recurrenceId = req.id}
           ELSE store = before \ {BeforeRow(req.id)}

C14_Witness ==
    /\ done("deleteEvent")
    /\ req.id \in BeforeIds
    /\ isMaster(BeforeRow(req.id))
    /\ \E e \in before : e.recurrenceId = req.id
    /\ store # {}

(* C15: in every reachable state every stored row with recurrenceId set     *)
(* names the id of a stored master: no exception is orphaned.               *)
C15_NoOrphanException ==
    \A e \in store :
        e.recurrenceId # NULL =>
            \E m \in store : m.id = e.recurrenceId /\ isMaster(m)

(* the three variants of a stored row *)
VariantSingle(e) == e.rrule = NULL /\ e.recurrenceId = NULL
VariantMaster(e) == e.rrule # NULL /\ e.recurrenceId = NULL
VariantException(e) ==
    e.recurrenceId # NULL /\ e.originalStartTime # NullTime /\ e.rrule = NULL

(* C16: every stored row is exactly one of Single (rrule and recurrenceId   *)
(* absent), Master (rrule set, recurrenceId absent) or Exception            *)
(* (recurrenceId and originalStartTime set, rrule absent), and isCancelled  *)
(* is true only on an Exception.                                            *)
C16_ExactlyOneVariant ==
    \A e \in store :
        /\ Cardinality({v \in {"single", "master", "exception"} :
                           \/ v = "single" /\ VariantSingle(e)
                           \/ v = "master" /\ VariantMaster(e)
                           \/ v = "exception" /\ VariantException(e)}) = 1
        /\ e.isCancelled => VariantException(e)

(* C18: in every reachable state every stored row that is not a             *)
(* cancellation exception has startTime < endTime and a non-empty title.    *)
C18_StoredRowsWellFormed ==
    \A e \in store :
        ~(VariantException(e) /\ e.isCancelled) =>
            /\ e.startTime < e.endTime
            /\ e.title # ""

(* the request fails the validation of title or times *)
Invalid == Blank(req.title) \/ req.startTime >= req.endTime

(* C17: a createEvent that is not a cancellation marker, and any            *)
(* updateEvent, with a blank title or with endTime not after startTime      *)
(* answers 400 ahead of the conflict query (also when a stored row          *)
(* overlaps) and leaves the table as it was; every write request ends in    *)
(* one outcome: validation failure, conflict, or a single persisted row     *)
(* (for updateEvent, of a stored target).                                   *)
C17_ValidationFirst ==
    /\ (done("createEvent") /\ ~req.isCancelled /\ Invalid) =>
          (resp.status = 400 /\ store = before)
    /\ (done("updateEvent") /\ Invalid) =>
          (resp.status = 400 /\ store = before)
    /\ done("createEvent") =>
          /\ resp.status \in {400, 409, 201}
          /\ resp.status = 201 <=> store # before
          /\ Cardinality(store \ before) <= 1
    /\ (done("updateEvent") /\ req.id \in BeforeIds) =>
          /\ resp.status \in {400, 409, 200}
          /\ resp.status # 200 => store = before
          /\ resp.status = 200 => (resp.event \in store /\ Cardinality(store \ before) <= 1)

(* C19: updateEvent (with a title and endTime after startTime) or          *)
(* deleteEvent with an id that is not stored, never issued or already       *)
(* deleted, answers 404 and leaves the table as it was; so a second         *)
(* deleteEvent of a deleted row answers 404.                                *)
C19_NotFound ==
    /\ (done("updateEvent") /\ req.id \notin BeforeIds /\ validated) =>
          (resp.status = 404 /\ store = before)
    /\ (done("deleteEvent") /\ req.id \notin BeforeIds) =>
          (resp.status = 404 /\ store = before)

C19_Witness ==
    /\ done("deleteEvent")
    /\ req.id \in IssuedIds
    /\ req.id \notin BeforeIds
    /\ resp.status = 404
    /\ store # {}

(* C20: getEvents never changes the table, and the list it returns is       *)
(* fixed by the stored rows and the window: whatever order the query hands  *)
(* the rows in, the list is the same.                                       *)
C20_GetEventsDeterministic ==
    done("getEvents") =>
        /\ store = before
        /\ \A o \in Orders({e \in before : potentialEventsWhere(e, req.start, req.end)}) :
              finalEvents(o, req.start, req.end) = resp.events

(* the lists getEvents may return for the rows and the window [a, b):       *)
(* one for each order in which findMany may hand the selected rows over     *)
Resolve(rows, a, b) ==
    {finalEvents(o, a, b) : o \in Orders({e \in rows : potentialEventsWhere(e, a, b)})}

Entries(list) == {list[i] : i \in 1 .. Len(list)}

(* the generated instances of master id in a list *)
InstancesOf(list, id) == {e \in Entries(list) : e.isRecurringInstance /\ e.masterId = id}

(* the instants at which some window shows a generated instance of master m *)
ShownInstants(rows, m) ==
    {t \in Times : \E w \in Windows : \E l \in Resolve(rows, w[1], w[2]) :
        \E e \in InstancesOf(l, m.id) : e.startTime = t}

(* createEvent has just stored the exception a drag of the generated        *)
(* instance of a stored master at originalStartTime sends                   *)
DraggedInstance ==
    /\ done("createEvent")
    /\ resp.status = 201
    /\ ~req.isCancelled
    /\ req.recurrenceId \in BeforeIds
    /\ isMaster(BeforeRow(req.recurrenceId))
    /\ ExceptionsAt(before, req.recurrenceId, req.originalStartTime) = {}
    /\ req.originalStartTime \in ShownInstants(before, BeforeRow(req.recurrenceId))

(* C21: once the drag of the generated instance of master M at t has been   *)
(* stored (an exception with recurrenceId = M and originalStartTime = t),   *)
(* getEvents for any window [a, b) with a <= t < b lists that exception at  *)
(* its new interval and no generated instance of M at t, and the other      *)
(* generated instances of M are the ones listed before the drag.            *)
C21_DragCreatesException ==
    DraggedInstance =>
        /\ resp.event.recurrenceId = req.recurrenceId
        /\ resp.event.originalStartTime = req.originalStartTime
        /\ \A w \in Windows :
              (w[1] <= req.originalStartTime /\ req.originalStartTime < w[2]) =>
                  \A l \in Resolve(store, w[1], w[2]) :
                      /\ Persisted(resp.event) \in Entries(l)
                      /\ \A e \in InstancesOf(l, req.recurrenceId) :
                            e.startTime # req.originalStartTime
                      /\ \A l0 \in Resolve(before, w[1], w[2]) :
                            InstancesOf(l, req.recurrenceId) =
                               {e \in InstancesOf(l0, req.recurrenceId) :
                                   e.startTime # req.originalStartTime}

(* C22: a stored single event is in the list getEvents returns for the      *)
(* window [windowStart, windowEnd) exactly when startTime < windowEnd and   *)
(* endTime > windowStart; one that ends at windowStart or starts at         *)
(* windowEnd is not in it.                                                  *)
C22_SingleInWindow ==
    done("getEvents") =>
        \A e \in before :
            VariantSingle(e) =>
                /\ Persisted(e) \in Listed <=> (e.startTime < req.end /\ e.endTime > req.start)
                /\ (e.endTime = req.start \/ e.startTime = req.end) => Persisted(e) \notin Listed

C22_Witness ==
    /\ done("getEvents")
    /\ \E e \in before : /\ VariantSingle(e)
                          /\ e.startTime < e.endTime
                          /\ (e.endTime = req.start \/ e.startTime = req.end)
    /\ \E e \in before : VariantSingle(e) /\ Persisted(e) \in Listed

(* the candidate rows of the request, and the places in a candidate list of *)
(* the exceptions with key (id, t)                                          *)
Candidates == {e \in before : potentialEventsWhere(e, req.start, req.end)}

KeyPlaces(o, id, t) ==
    {i \in 1 .. Len(o) : isException(o[i]) /\ o[i].recurrenceId = id /\ o[i].originalStartTime = t}

(* the entries of a list that are stored exceptions with key (id, t) *)
KeyEntries(l, id, t) ==
    {i \in 1 .. Len(l) : ~l[i].isRecurringInstance /\ isException(l[i])
                          /\ l[i].recurrenceId = id /\ l[i].originalStartTime = t}

(* the occurrence slots of the request that two or more candidates claim *)
SharedSlots ==
    {k \in {<<m.id, t>> : m \in Masters(Candidates), t \in Times} :
        /\ k[2] \in between(BeforeRow(k[1]).rrule, BeforeRow(k[1]).startTime, req.start, req.end)
        /\ Cardinality(ExceptionsAt(Candidates, k[1], k[2])) >= 2}

(* C23: when two stored exceptions have the same key (M, t), getEvents      *)
(* emits at most one entry for the occurrence slot (M, t) it processes, and *)
(* the exception that is last in the candidate list decides it: nothing if  *)
(* that one is a cancellation, otherwise that one, and never an earlier one *)
C23_LastExceptionWins ==
    done("getEvents") =>
        /\ resp.events \in Resolve(before, req.start, req.end)
        /\ \A o \in Orders(Candidates) :
              \A k \in SharedSlots :
                  LET l == finalEvents(o, req.start, req.end)
                      last == o[CHOOSE i \in KeyPlaces(o, k[1], k[2]) :
                                   \A j \in KeyPlaces(o, k[1], k[2]) : j <= i]
                  IN /\ Cardinality(KeyEntries(l, k[1], k[2])) <= 1
                     /\ \A e \in InstancesOf(l, k[1]) : e.startTime # k[2]
                     /\ last.isCancelled => KeyEntries(l, k[1], k[2]) = {}
                     /\ ~last.isCancelled =>
                           /\ KeyEntries(l, k[1], k[2]) # {}
                           /\ \A i \in KeyEntries(l, k[1], k[2]) : l[i] = Persisted(last)

C23_Witness ==
    /\ done("getEvents")
    /\ \E k \in SharedSlots :
          /\ \E x \in ExceptionsAt(Candidates, k[1], k[2]) : x.isCancelled
          /\ \E x \in ExceptionsAt(Candidates, k[1], k[2]) : Persisted(x) \in Listed

(* createEvent has just stored an exception of a stored master *)
ExceptionCreated ==
    /\ done("createEvent")
    /\ resp.status = 201
    /\ req.recurrenceId \in BeforeIds
    /\ isMaster(BeforeRow(req.recurrenceId))
    /\ VariantException(resp.event)

(* C24: creating an exception with key (M, t) and then deleting it with     *)
(* deleteEvent leaves the table as it was before the creation (M and every  *)
(* other row untouched), so getEvents has for every window the lists it had *)
(* before, with the generated instance of M at t where it was generated     *)
(* before; and deleteEvent of a stored row is that removal.                 *)
C24_CreateDeleteRoundTrip ==
    /\ ExceptionCreated =>
          LET M == BeforeRow(req.recurrenceId)
              t == req.originalStartTime
              back == rowsAfterDelete(store, resp.event.id)
          IN /\ back = before
             /\ M \in back
             /\ \A w \in Windows :
                   /\ Resolve(back, w[1], w[2]) = Resolve(before, w[1], w[2])
                   /\ (/\ t \in between(M.rrule, M.startTime, w[1], w[2])
                       /\ ExceptionsAt(before, M.id, t) = {})
                         => \A l \in Resolve(back, w[1], w[2]) :
                               \E e \in InstancesOf(l, M.id) : e.startTime = t
    /\ (done("deleteEvent") /\ req.id \in BeforeIds) =>
          (resp.status = 204 /\ store = rowsAfterDelete(before, req.id))

C24_Witness ==
    /\ ExceptionCreated
    /\ ExceptionsAt(before, req.recurrenceId, req.originalStartTime) = {}
    /\ \E x \in before : x.recurrenceId = req.recurrenceId
    /\ \E w \in Windows :
          /\ req.originalStartTime \in between(BeforeRow(req.recurrenceId).rrule,
                                               BeforeRow(req.recurrenceId).startTime, w[1], w[2])
          /\ Resolve(store, w[1], w[2]) # Resolve(before, w[1], w[2])

(* C25: with the handlers run one at a time, two stored rows with           *)
(* startTime < endTime overlap only if the recurrenceId of one is the id of *)
(* the other (an exception stored over the row it names).                   *)
C25_SequentialOverlapOnlyWithinSeries ==
    \A a, b \in store :
        (/\ a.id # b.id
         /\ a.startTime < a.endTime
         /\ b.startTime < b.endTime
         /\ a.startTime < b.endTime
         /\ b.startTime < a.endTime)
            => (a.recurrenceId = b.id \/ b.recurrenceId = a.id)

C25_Witness ==
    /\ Cardinality(store) = 3
    /\ \E a, b \in store :
          /\ a.recurrenceId = b.id
          /\ a.startTime < a.endTime
          /\ Overlap(a.startTime, a.endTime, b.startTime, b.endTime)
    /\ done("createEvent")
    /\ resp.status = 409

(* the stored cancellations of a stored master's occurrence whose interval  *)
(* the validated write request overlaps                                     *)
BlockingCancellations ==
    {c \in Cancellations : /\ VariantException(c)
                           /\ c.id # Excluded
                           /\ c.startTime < req.endTime
                           /\ c.endTime > req.startTime}

WriteValidated == (done("createEvent") \/ done("updateEvent")) /\ validated

(* no window shows an instance at the slot of cancellation c, nor c itself *)
SlotHidden(c) ==
    \A w \in Windows : \A l \in Resolve(before, w[1], w[2]) :
        /\ \A e \in InstancesOf(l, c.recurrenceId) : e.startTime # c.originalStartTime
        /\ Persisted(c) \notin Entries(l)

(* C26: a createEvent or updateEvent whose interval overlaps the interval   *)
(* of a stored cancellation is rejected with a conflict that names the      *)
(* cancellation row, and the table is left as it was, though the slot shows *)
(* no instance.                                                             *)
C26_CancellationBlocksSlot ==
    WriteValidated =>
        \A c \in BlockingCancellations :
            /\ resp.status = 409
            /\ resp.conflict = c
            /\ store = before
            /\ SlotHidden(c)

(* the stored exceptions (M, t) of a stored master M whose instant t the    *)
(* rule of M, begun at the startTime of M, does not generate                *)
Detached(rows) ==
    {x \in rows :
        /\ VariantException(x)
        /\ \E m \in rows :
              /\ m.id = x.recurrenceId
              /\ isMaster(m)
              /\ x.originalStartTime \notin RuleOccurrences(m.rrule, m.startTime, MaxTime + 1)}

(* C27: an exception takes effect only while its originalStartTime is an    *)
(* instant generated by its master's current rule and startTime: a stored   *)
(* exception (M, t) whose t is not generated is emitted by getEvents for no *)
(* window, and every list is the one it would be without the exception (it  *)
(* neither hides nor replaces an occurrence); it stays stored, as an        *)
(* updateEvent request removes no row.                                      *)
C27_DetachedExceptionInert ==
    /\ \A x \in Detached(store) : \A w \in Windows :
          /\ \A l \in Resolve(store, w[1], w[2]) : Persisted(x) \notin Entries(l)
          /\ Resolve(store, w[1], w[2]) = Resolve(store \ {x}, w[1], w[2])
    /\ done("getEvents") =>
          \A x \in Detached(before) : Persisted(x) \notin Entries(resp.events)
    /\ done("updateEvent") => Detached(before) \subseteq store

C27_Witness ==
    /\ done("getEvents")
    /\ \E x \in Detached(before) :
          /\ ~x.isCancelled
          /\ req.start <= x.originalStartTime
          /\ x.originalStartTime < req.end
          /\ x.startTime < req.end
          /\ x.endTime > req.start
          /\ \E e \in Entries(resp.events) :
                e.isRecurringInstance /\ e.masterId = x.recurrenceId

(* a drag of the event is between its optimistic update and its end *)
Dragging(id) ==
    \E h \in Calls : /\ calls[h].handler = "handleDragEnd"
                     /\ calls[h].pc # "over"
                     /\ calls[h].event.id = id

(* the list shows the event at that start *)
ShownAt(id, t) == \E i \in 1 .. Len(events) : events[i].id = id /\ events[i].startTime = t

(* the server lists the event at that start for one of the weeks *)
ServedAt(id, t) ==
    \E monday \in Mondays :
        \E l \in Resolve(store, monday - DaysPerWeek * TicksPerDay,
                                 monday + 2 * DaysPerWeek * TicksPerDay) :
            \E e \in Entries(l) : e.id = id /\ e.startTime = t

(* C28: a drag whose API call fails ends with the list shown equal to the   *)
(* list captured when the drag ended and with the error message set; a drag *)
(* whose API call succeeds ends with the list reloaded from the server; and *)
(* once a drag has failed, its event is not shown at the refused start      *)
(* (unless dragged again), whatever reloads and other drags were under way. *)
C28_DragOutcome ==
    /\ \A h \in Calls :
          calls[h].pc = "failed" =>
              (events = calls[h].originalEvents /\ error = "move")
    /\ \A h \in Calls :
          calls[h].pc \in {"reloaded", "reloadFailed"} =>
              /\ calls[h].pc = "reloaded"
              /\ events = inflight[h].resp.events
    /\ \A r \in rejected :
          (~Dragging(r[1]) /\ ShownAt(r[1], r[2])) => ServedAt(r[1], r[2])

====
